---- MODULE Spec2Model ----
(***************************************************************************)
(* The Muskingum-Cunge wave routing demo notebook                          *)
(* (notebooks/mc-wave-routing-demo.ipynb) as a state machine.              *)
(*                                                                         *)
(* The notebook's code cells run in a Python kernel: cell 3 imports (or    *)
(* compiles and imports) the Fortran extension, cell 4 imports             *)
(* singlesegment, cells 5 and 6 assign the time/space domain and the       *)
(* channel parameters, and the two experiment cells each assign initial    *)
(* conditions, step singlesegment through tsteps timesteps and plot.       *)
(*                                                                         *)
(* Units.  Python floats are modelled as scaled integers:                  *)
(*   flows (qup, quc, qdp, qdc, qlat)      in 1/100 m3/s  (0.21 -> 21)     *)
(*   velocity and depth                    in 1/1000      (0.070 -> 70)    *)
(*   cs in 1/100, Manning n in 1/1000, s0 in 1/10000                       *)
(*   dt in seconds, dx and the widths in meters.                           *)
(* A non-finite float (nan/inf) is the value NaN.                          *)
(***************************************************************************)
EXTENDS Integers, Sequences, FiniteSets

\* ------------------------------------------------------------- bounds
\* Timestep counts tried besides the notebook's own 60: 0..MaxTsteps.
MaxTsteps == 3
\* Number of experiment cells executed in one kernel session.
MaxRuns == 3

\* ------------------------------------------------- notebook constants
DT == 600
TSTEPS == 60
DX == 2000
BW == 112
TW == 448
TWCC == 623
CS == 140
N_MANNING == 28
N_MANNING_CC == 31
S0 == 18
QLAT == 0
\* Experiment 1 upstream boundary (0.41) and the shared initial state.
QUP_STEP == 41
QDP0 == 21
DEPTHP0 == 10
VELP0 == 70
\* Experiment 2 baseline (0.21) and pulse (1) upstream flows.
BASELINE == 21
PULSE == 100

\* A non-finite floating point value returned by the Fortran routine.
NaN == -1

\* Values a user may give the domain and the floodplain width in cells 5, 6:
\* the notebook's own, and non-positive / too narrow ones.
DtChoices == {0, DT}
DxChoices == {0, DX}
TwccChoices == {TW - 48, TWCC}
TstepsChoices == (0..MaxTsteps) \cup {TSTEPS}

VARIABLES
    pc,                  \* next cell: "cell3","cell4","cell5","cell6","ready","exp1","exp2"
    err,                 \* last uncaught exception shown by the kernel ("none" if none)
    caught,              \* cell 3 swallowed an exception (printed it and went on)
    muskingcunge_module, \* the compiled module is bound (import succeeded)
    singlesegmentBound,  \* the name singlesegment is bound
    pltBound,            \* the name plt is bound (imported by the Experiment 1 cell)
    dt, tsteps, dx,      \* cell 5
    tw, twcc,            \* cell 6 (bw, cs, n_manning, n_manning_cc, s0 are the constants)
    qlat, qup, quc, qdp, depthp, velp,
    qdc, velc, depthc,
    it,                  \* position of the range(0, tsteps) iterator
    k,                   \* the loop variable
    q_result, t_result, qus,
    calls,               \* history: the singlesegment calls of the current run
    runs                 \* history: the experiment cells run so far

vars == <<pc, err, caught, muskingcunge_module, singlesegmentBound, pltBound,
          dt, tsteps, dx, tw, twcc, qlat, qup, quc, qdp, depthp, velp,
          qdc, velc, depthc, it, k, q_result, t_result, qus, calls, runs>>

envVars == <<muskingcunge_module, singlesegmentBound>>
cfgVars == <<dt, tsteps, dx, tw, twcc>>
stateVars == <<qlat, qup, quc, qdp, depthp, velp>>
outVars == <<qdc, velc, depthc>>
loopVars == <<it, k>>
resultVars == <<q_result, t_result, qus>>

\* A fresh kernel: no name is bound.  The integer variables hold 0 until the
\* cell that assigns them runs; every read in the notebook follows that cell.
Init ==
    /\ pc = "cell3"
    /\ err = "none"
    /\ caught = FALSE
    /\ muskingcunge_module = FALSE
    /\ singlesegmentBound = FALSE
    /\ pltBound = FALSE
    /\ dt = 0 /\ tsteps = 0 /\ dx = 0
    /\ tw = 0 /\ twcc = 0
    /\ qlat = 0 /\ qup = 0 /\ quc = 0 /\ qdp = 0 /\ depthp = 0 /\ velp = 0
    /\ qdc = 0 /\ velc = 0 /\ depthc = 0
    /\ it = 0 /\ k = 0
    /\ q_result = <<>> /\ t_result = <<>> /\ qus = <<>>
    /\ calls = <<>>
    /\ runs = <<>>

\* ------------------------------------------------ cell 3: the extension
\* try: from mc_sseg_stime import muskingcunge_module
\* except: try: f2py3 ...; from mc_sseg_stime import muskingcunge_module
\*         except Exception as e: print(e); traceback.print_exc()
\* prebuilt: the first import finds the module; built: the f2py3 build and the
\* second import succeed.  No exception leaves the cell.
ImportCompiled ==
    /\ pc = "cell3"
    /\ \E outcome \in {"prebuilt", "built", "failed"} :
          /\ muskingcunge_module' = (outcome # "failed")
          /\ caught' = (outcome = "failed")
    /\ pc' = "cell4"
    /\ UNCHANGED <<err, singlesegmentBound, pltBound, cfgVars, stateVars, outVars,
                   loopVars, resultVars, calls, runs>>

\* ------------------------------------------- cell 4: import singlesegment
\* mc_sseg_stime_NOLOOP_demo wraps the compiled routine: importing it needs
\* the compiled module (the solver is acquired once, before the loop).
SinglesegmentImportable == muskingcunge_module

\* from mc_sseg_stime_NOLOOP_demo import singlesegment
ImportSinglesegment ==
    /\ pc = "cell4"
    /\ SinglesegmentImportable
    /\ singlesegmentBound' = TRUE
    /\ pc' = "cell5"
    /\ UNCHANGED <<err, caught, muskingcunge_module, pltBound, cfgVars, stateVars,
                   outVars, loopVars, resultVars, calls, runs>>

\* The import raises: the kernel shows the ImportError and the name stays
\* unbound.  The remaining cells can still be executed.
ImportSinglesegmentFails ==
    /\ pc = "cell4"
    /\ ~SinglesegmentImportable
    /\ err' = "ImportError"
    /\ pc' = "cell5"
    /\ UNCHANGED <<caught, muskingcunge_module, singlesegmentBound, pltBound, cfgVars,
                   stateVars, outVars, loopVars, resultVars, calls, runs>>

\* ------------------------------------------------- cells 5 and 6: config
\* dt = 600; tsteps = 60; dx = 2000.0 -- plain assignments, nothing is checked.
SetDomain ==
    /\ pc = "cell5"
    /\ \E d \in DtChoices, n \in TstepsChoices, x \in DxChoices :
          /\ dt' = d
          /\ tsteps' = n
          /\ dx' = x
    /\ pc' = "cell6"
    /\ UNCHANGED <<err, caught, envVars, pltBound, tw, twcc, stateVars, outVars,
                   loopVars, resultVars, calls, runs>>

\* bw = 112.0; tw = 448.0; twcc = 623.0; ... -- plain assignments.
SetChannel ==
    /\ pc = "cell6"
    /\ \E w \in TwccChoices :
          /\ tw' = TW
          /\ twcc' = w
    /\ pc' = "ready"
    /\ UNCHANGED <<err, caught, envVars, pltBound, dt, tsteps, dx, stateVars, outVars,
                   loopVars, resultVars, calls, runs>>

\* ------------------------------------------------------------ the solver
\* The Fortran routine behind singlesegment is a black box: a pure function
\* of its fifteen arguments.  This stand-in is a Muskingum-style weighted
\* average; a non-finite argument, or a division by a zero timestep or
\* segment length, gives non-finite results.
IsNaN(x) == x = NaN

singlesegment(a_dt, a_qup, a_quc, a_qdp, a_qlat, a_dx, a_bw, a_tw, a_twcc, a_n, a_ncc, a_cs, a_s0, a_velp, a_depthp) ==
    IF \/ a_dt <= 0 \/ a_dx <= 0
       \/ \E x \in {a_qup, a_quc, a_qdp, a_qlat, a_velp, a_depthp} : IsNaN(x)
    THEN <<NaN, NaN, NaN>>
    ELSE LET q == (a_qup + a_quc + 2 * a_qdp) \div 4 + a_qlat
         IN  <<q, (q * 1000) \div (a_bw + a_tw), (q * 100) \div a_twcc>>

\* ------------------------------------------------------ loop building blocks
\* Variant: a loop that tests after the body (runs once even for tsteps = 0).
LoopHasNextInclusive(i, n) == i <= n

\* for k in range(0, tsteps): the iterator yields while its position < tsteps.
LoopHasNext(i, n) == i < n

\* Variant: the call goes ahead (with whatever the routine gives) although
\* the name was never bound.
SolverCallableAlways == TRUE

\* singlesegment(...) resolves the name at the call; unbound raises NameError.
SolverCallable == singlesegmentBound

\* Variant: the time stamp of the end of the step.
ElapsedTimeEndOfStep(kk, d) == (kk + 1) * d

\* t_result.append(k * dt)
ElapsedTime(kk, d) == kk * d

\* Variant: the depth is not carried over (depthp keeps its old value).
NextPreviousStateStaleDepth(c_qdc, c_velc, c_depthc) == <<c_qdc, c_velc, depthp>>

\* qdp = qdc; depthp = depthc; velp = velc  -- as <<qdp, velp, depthp>>
NextPreviousState(c_qdc, c_velc, c_depthc) == <<c_qdc, c_velc, c_depthc>>

\* Variant: the pulse window closes one step late (5 < k <= 10).
PulseBoundaryLate(kk, up, uc) ==
    IF 5 < kk /\ kk <= 10 THEN <<PULSE, PULSE>> ELSE <<BASELINE, BASELINE>>

\* Experiment 2, lines 283-293: `if k <= 5` followed by an independent
\* `if 5 < k < 10 ... else`; gives <<qup, quc>>.
PulseBoundary(kk, up, uc) ==
    LET first == IF kk <= 5 THEN <<BASELINE, BASELINE>> ELSE <<up, uc>>
    IN  IF 5 < kk /\ kk < 10 THEN <<PULSE, PULSE>> ELSE <<BASELINE, BASELINE>>

\* The record of one call: the step, the arguments that vary, the result.
CallRecord(kk, up, uc, ret) ==
    [k |-> kk, qup |-> up, quc |-> uc, qdp |-> qdp, velp |-> velp, depthp |-> depthp,
     qlat |-> qlat, dt |-> dt, dx |-> dx, twcc |-> twcc, ret |-> ret]

\* ---------------------------------------------------------- Experiment 1
\* Lines 188-200: <<qlat, qup, quc, qdp, depthp, velp>> before the loop.
Exp1InitialConditions == <<QLAT, QUP_STEP, QUP_STEP, QDP0, DEPTHP0, VELP0>>

Exp1Start ==
    /\ pc = "ready"
    /\ Len(runs) < MaxRuns
    /\ LET ic == Exp1InitialConditions
       IN  /\ qlat' = ic[1]
           /\ qup' = ic[2]
           /\ quc' = ic[3]
           /\ qdp' = ic[4]
           /\ depthp' = ic[5]
           /\ velp' = ic[6]
    /\ q_result' = <<>>
    /\ t_result' = <<>>
    /\ it' = 0
    /\ calls' = <<>>
    /\ pc' = "exp1"
    /\ UNCHANGED <<err, caught, envVars, pltBound, cfgVars, outVars, k, qus, runs>>

\* One iteration of the loop, lines 203-231.
Exp1Step ==
    /\ pc = "exp1"
    /\ LoopHasNext(it, tsteps)
    /\ SolverCallable
    /\ LET ret == singlesegment(dt, qup, quc, qdp, qlat, dx, BW, tw, twcc,
                                N_MANNING, N_MANNING_CC, CS, S0, velp, depthp)
           nxt == NextPreviousState(ret[1], ret[2], ret[3])
       IN  /\ k' = it
           /\ it' = it + 1
           /\ qdc' = ret[1]
           /\ velc' = ret[2]
           /\ depthc' = ret[3]
           /\ q_result' = Append(q_result, ret[1])
           /\ t_result' = Append(t_result, ElapsedTime(it, dt))
           /\ qdp' = nxt[1]
           /\ velp' = nxt[2]
           /\ depthp' = nxt[3]
           /\ calls' = Append(calls, CallRecord(it, qup, quc, ret))
    /\ UNCHANGED <<pc, err, caught, envVars, pltBound, cfgVars, qlat, qup, quc, qus, runs>>

\* The call at line 206 raises NameError: the cell is abandoned.
Exp1StepRaises ==
    /\ pc = "exp1"
    /\ LoopHasNext(it, tsteps)
    /\ ~SolverCallable
    /\ k' = it
    /\ err' = "NameError"
    /\ runs' = Append(runs, [exp |-> 1, completed |-> FALSE, q |-> q_result,
                             t |-> t_result, ncalls |-> Len(calls)])
    /\ pc' = "ready"
    /\ UNCHANGED <<caught, envVars, pltBound, cfgVars, stateVars, outVars, it,
                   resultVars, calls>>

\* The loop is exhausted; lines 233-240 import pyplot and plot.
Exp1End ==
    /\ pc = "exp1"
    /\ ~LoopHasNext(it, tsteps)
    /\ pltBound' = TRUE
    /\ runs' = Append(runs, [exp |-> 1, completed |-> TRUE, q |-> q_result,
                             t |-> t_result, ncalls |-> Len(calls)])
    /\ pc' = "ready"
    /\ UNCHANGED <<err, caught, envVars, cfgVars, stateVars, outVars, loopVars,
                   resultVars, calls>>

\* ---------------------------------------------------------- Experiment 2
\* Variant: the segment state is not reset (it is left as the previous
\* experiment ended).
Exp2InitialConditionsLeaky == <<QLAT, BASELINE, BASELINE, qdp, depthp, velp>>

\* Lines 264-277.
Exp2InitialConditions == <<QLAT, BASELINE, BASELINE, QDP0, DEPTHP0, VELP0>>

Exp2Start ==
    /\ pc = "ready"
    /\ Len(runs) < MaxRuns
    /\ LET ic == Exp2InitialConditions
       IN  /\ qlat' = ic[1]
           /\ qup' = ic[2]
           /\ quc' = ic[3]
           /\ qdp' = ic[4]
           /\ depthp' = ic[5]
           /\ velp' = ic[6]
    /\ qus' = <<>>
    /\ q_result' = <<>>
    /\ t_result' = <<>>
    /\ it' = 0
    /\ calls' = <<>>
    /\ pc' = "exp2"
    /\ UNCHANGED <<err, caught, envVars, pltBound, cfgVars, outVars, k, runs>>

\* One iteration of the loop, lines 280-322.
Exp2Step ==
    /\ pc = "exp2"
    /\ LoopHasNext(it, tsteps)
    /\ SolverCallable
    /\ LET bc  == PulseBoundary(it, qup, quc)
           ret == singlesegment(dt, bc[1], bc[2], qdp, qlat, dx, BW, tw, twcc,
                                N_MANNING, N_MANNING_CC, CS, S0, velp, depthp)
           nxt == NextPreviousState(ret[1], ret[2], ret[3])
       IN  /\ k' = it
           /\ it' = it + 1
           /\ qup' = bc[1]
           /\ quc' = bc[2]
           /\ qdc' = ret[1]
           /\ velc' = ret[2]
           /\ depthc' = ret[3]
           /\ q_result' = Append(q_result, ret[1])
           /\ t_result' = Append(t_result, ElapsedTime(it, dt))
           /\ qus' = Append(qus, bc[2])
           /\ qdp' = nxt[1]
           /\ velp' = nxt[2]
           /\ depthp' = nxt[3]
           /\ calls' = Append(calls, CallRecord(it, bc[1], bc[2], ret))
    /\ UNCHANGED <<pc, err, caught, envVars, pltBound, cfgVars, qlat, runs>>

\* The call at line 296 raises NameError, after the boundary assignment.
Exp2StepRaises ==
    /\ pc = "exp2"
    /\ LoopHasNext(it, tsteps)
    /\ ~SolverCallable
    /\ LET bc == PulseBoundary(it, qup, quc)
       IN  /\ qup' = bc[1]
           /\ quc' = bc[2]
    /\ k' = it
    /\ err' = "NameError"
    /\ runs' = Append(runs, [exp |-> 2, completed |-> FALSE, q |-> q_result,
                             t |-> t_result, ncalls |-> Len(calls)])
    /\ pc' = "ready"
    /\ UNCHANGED <<caught, envVars, pltBound, cfgVars, qlat, qdp, depthp, velp,
                   outVars, it, resultVars, calls>>

\* The loop is exhausted; lines 324-329 plot with the plt that the
\* Experiment 1 cell imported (NameError if that cell never got there).
Exp2End ==
    /\ pc = "exp2"
    /\ ~LoopHasNext(it, tsteps)
    /\ err' = IF pltBound THEN err ELSE "NameError"
    /\ runs' = Append(runs, [exp |-> 2, completed |-> TRUE, q |-> q_result,
                             t |-> t_result, ncalls |-> Len(calls)])
    /\ pc' = "ready"
    /\ UNCHANGED <<caught, envVars, pltBound, cfgVars, stateVars, outVars, loopVars,
                   resultVars, calls>>

Next ==
    \/ ImportCompiled
    \/ ImportSinglesegment
    \/ ImportSinglesegmentFails
    \/ SetDomain
    \/ SetChannel
    \/ Exp1Start
    \/ Exp1Step
    \/ Exp1StepRaises
    \/ Exp1End
    \/ Exp2Start
    \/ Exp2Step
    \/ Exp2StepRaises
    \/ Exp2End

Spec == Init /\ [][Next]_vars

\* ===================================================================
\* Properties
\* ===================================================================
InRun == pc \in {"exp1", "exp2"}
Configured == pc \in {"ready", "exp1", "exp2"}

\* <<qdp, velp, depthp>> as assigned before the loop of the current cell.
InitialTriple ==
    LET ic == IF pc = "exp1" THEN Exp1InitialConditions ELSE Exp2InitialConditions
    IN  <<ic[4], ic[6], ic[5]>>

PassedTriple(i) == <<calls[i].qdp, calls[i].velp, calls[i].depthp>>

HasNaN(t) == \E j \in DOMAIN t : IsNaN(t[j])

\* C1: in both loops the previous-state triple (qdp, velp, depthp) passed at
\* step 0 is the initial condition, the triple passed at step k > 0 is the
\* triple the call of step k-1 returned, and the variables themselves always
\* hold the initial condition or the last returned triple (nothing else
\* assigns them).
C1_StateThreading ==
    InRun =>
        /\ \A i \in 1..Len(calls) :
              /\ calls[i].k = i - 1
              /\ PassedTriple(i) = IF i = 1 THEN InitialTriple ELSE calls[i - 1].ret
        /\ <<qdp, velp, depthp>> =
              IF calls = <<>> THEN InitialTriple ELSE calls[Len(calls)].ret

C1_Witness ==
    /\ InRun
    /\ Len(calls) >= 3
    /\ ~HasNaN(calls[3].ret)
    /\ PassedTriple(3) # PassedTriple(2)
    /\ PassedTriple(2) # PassedTriple(1)

\* C2: in the pulse experiment the upstream flow quc passed to singlesegment
\* and recorded in qus at step k is 1 for k in 6..9 and 0.21 for every other
\* k (up to 59 when tsteps = 60).
PulseAt(kk) == IF kk \in 6..9 THEN PULSE ELSE BASELINE

C2_PulseScenario ==
    /\ \A i \in 1..Len(qus) : qus[i] = PulseAt(i - 1)
    /\ pc = "exp2" =>
          /\ Len(qus) = Len(calls)
          /\ \A i \in 1..Len(calls) : calls[i].quc = PulseAt(i - 1)

C2_Witness ==
    /\ pc = "exp2"
    /\ tsteps = TSTEPS
    /\ Len(qus) = TSTEPS
    /\ qus[6] = BASELINE /\ qus[7] = PULSE /\ qus[10] = PULSE /\ qus[11] = BASELINE

\* C3: when the compiled solver could not be imported nor built, an
\* exception is shown (by cell 4, or by the first call), no loop iteration
\* completes and nothing is ever appended to q_result or t_result.
SolverUnavailable == pc # "cell3" /\ ~muskingcunge_module

C3_FailFast ==
    SolverUnavailable =>
        /\ calls = <<>>
        /\ q_result = <<>>
        /\ t_result = <<>>
        /\ it = 0
        /\ pc # "cell4" => err \in {"ImportError", "NameError"}
        /\ \A i \in 1..Len(runs) :
              /\ runs[i].ncalls = 0
              /\ runs[i].q = <<>>
              /\ runs[i].t = <<>>
              /\ tsteps > 0 => ~runs[i].completed

C3_Witness ==
    /\ SolverUnavailable
    /\ caught
    /\ tsteps = TSTEPS
    /\ Len(runs) >= 2
    /\ ~runs[1].completed
    /\ err = "NameError"

\* C4 (as claimed): a configuration with twcc < tw, dt <= 0 or dx <= 0 is
\* rejected before any step: singlesegment is never invoked and nothing is
\* appended to q_result or t_result.
InvalidConfig == Configured /\ (twcc < tw \/ dt <= 0 \/ dx <= 0)

C4_BoundaryRejection ==
    InvalidConfig =>
        /\ calls = <<>>
        /\ q_result = <<>>
        /\ t_result = <<>>

\* C5 (as claimed): a non-finite value returned at step k is reported as a
\* failure of step k, is never assigned to qdp, velp or depthp and no later
\* step is computed from it.
C5_AnomalyNotPropagated ==
    InRun =>
        \A i \in 1..Len(calls) :
            HasNaN(calls[i].ret) =>
                /\ i = Len(calls)
                /\ err # "none"
                /\ ~HasNaN(<<qdp, velp, depthp>>)

\* C6: with tsteps = 0 the loop ends without a call to singlesegment and
\* with q_result and t_result empty.
C6_ZeroSteps ==
    (Configured /\ tsteps = 0) =>
        /\ InRun => (calls = <<>> /\ q_result = <<>> /\ t_result = <<>> /\ it = 0)
        /\ \A i \in 1..Len(runs) :
              /\ runs[i].completed
              /\ runs[i].ncalls = 0
              /\ runs[i].q = <<>>
              /\ runs[i].t = <<>>

C6_Witness ==
    /\ Configured
    /\ tsteps = 0
    /\ singlesegmentBound
    /\ pc = "ready"
    /\ Len(runs) = 2
    /\ runs[1].exp # runs[2].exp

\* C7: two runs of the same experiment cell in one session (same geometry,
\* dt, tsteps, initial conditions and boundary series) give the same
\* q_result and t_result, whatever cell ran before each of them.
C7_Determinism ==
    \A i, j \in 1..Len(runs) :
        runs[i].exp = runs[j].exp =>
            /\ runs[i].q = runs[j].q
            /\ runs[i].t = runs[j].t
            /\ runs[i].completed = runs[j].completed

C7_Witness ==
    /\ Len(runs) = 3
    /\ runs[1].exp = 2 /\ runs[2].exp = 1 /\ runs[3].exp = 2
    /\ runs[3].completed
    /\ Len(runs[3].q) = TSTEPS
    /\ ~HasNaN(runs[3].q)
    /\ runs[2].q # runs[3].q

\* C8: during a run q_result and t_result are as long as the number of
\* completed steps, t_result[k] = k * dt and q_result[k] is the qdc returned
\* by the call of step k; when the loop has ended both hold tsteps entries.
C8_ResultSeries ==
    /\ InRun =>
          /\ Len(q_result) = it
          /\ Len(t_result) = it
          /\ Len(calls) = it
          /\ \A i \in 1..it :
                /\ t_result[i] = (i - 1) * dt
                /\ q_result[i] = calls[i].ret[1]
    /\ \A i \in 1..Len(runs) :
          runs[i].completed =>
              /\ Len(runs[i].q) = tsteps
              /\ Len(runs[i].t) = tsteps

C8_Witness ==
    /\ Len(runs) >= 1
    /\ runs[1].completed
    /\ tsteps = TSTEPS
    /\ dt = DT
    /\ Len(runs[1].t) = TSTEPS
    /\ runs[1].t[TSTEPS] = (TSTEPS - 1) * DT
    /\ ~HasNaN(runs[1].q)

\* C9 (as claimed): in Experiment 1 the upstream flow passed at every step
\* (qup and quc) is exactly twice the initial downstream flow qdp.
C9_StepChangeDoubling ==
    pc = "exp1" =>
        \A i \in 1..Len(calls) :
            /\ calls[i].qup = 2 * Exp1InitialConditions[4]
            /\ calls[i].quc = 2 * Exp1InitialConditions[4]

\* C10 (as claimed): in the pulse experiment the qup passed at step k > 0 is
\* the quc passed at step k-1.
C10_UpstreamShift ==
    pc = "exp2" =>
        \A i \in 2..Len(calls) : calls[i].qup = calls[i - 1].quc

====
